---- MODULE Spec2Model ----
(***************************************************************************)
(* The Kademlia routing table of dht/hashtable.go: the bucket array, the   *)
(* insertion of contacts (addNode) and the closest-contacts query          *)
(* (getClosestContacts), with the bucket index computed bit by bit as      *)
(* getBucketIndexFromDifferingBit and hasBit compute it.                   *)
(*                                                                         *)
(* Identifiers are byte strings (sequences of numbers 0..255, byte 0       *)
(* first).  The key size b and the bucket capacity k are scaled down from  *)
(* 160 and 20, and identifiers are b \div 8 bytes long as in the source    *)
(* (160 bits, 20 bytes).                                                   *)
(***************************************************************************)
EXTENDS Integers, Sequences, FiniteSets

VARIABLES
    Self,          \* ht.Self: the local NetworkNode
    RoutingTable,  \* ht.RoutingTable: bucket index 0..b-1 -> sequence of nodes
    inserted,      \* history: the nodes passed to addNode so far, in call order
    pc,            \* "idle", or "returned" once a query has handed back its shortlist
    args,          \* the arguments of the query that returned last
    sl,            \* the shortlist (sl.Nodes) that query returned
    call,          \* a call of newHashTable or of the distance metric: input, result
    mutex,         \* ht.mutex: Free, or the goroutine that holds it
    goroutine      \* the concurrent callers: goroutine -> its call and its position in it

vars == <<Self, RoutingTable, inserted, pc, args, sl, call, mutex, goroutine>>

-----------------------------------------------------------------------------
(* Bounds *)

\* the size in bits of the keys (160 in the source)
b == 16

\* the maximum number of contacts stored in a bucket (20 in the source)
k == 2

\* the number of addNode calls of a run
MaxAdds == 3

\* the largest count a query asks for
MaxNum == 3

\* the byte values identifiers are built from
ByteVals == {0, 1, 128}

IDLen == b \div 8

IDs == [1..IDLen -> ByteVals]

ZeroID == [j \in 1..IDLen |-> 0]

\* the byte values of the identifiers the distance metric is applied to
MetricBytes == {0, 1, 2, 5, 16, 64, 128, 255}

MetricIDs == [1..IDLen -> MetricBytes]

IPs == {1, 2}

Ports == {3000}

Nodes == [ID : IDs, IP : IPs, Port : Ports]

\* the identifiers a table is built for: all bytes 0, all bytes 1
SelfNodes == {[ID |-> [j \in 1..IDLen |-> v], IP |-> 1, Port |-> 3000] : v \in {0, 1}}

-----------------------------------------------------------------------------
(* The distance metric *)

RECURSIVE XorBits(_, _, _)
XorBits(x, y, n) ==
    IF n = 0 THEN 0
    ELSE (((x % 2) + (y % 2)) % 2) + 2 * XorBits(x \div 2, y \div 2, n - 1)

RECURSIVE AndNotBits(_, _, _)
AndNotBits(x, y, n) ==
    IF n = 0 THEN 0
    ELSE (IF x % 2 = 1 /\ y % 2 = 0 THEN 1 ELSE 0)
         + 2 * AndNotBits(x \div 2, y \div 2, n - 1)

\* x &^ y on bytes, the bits of x that y has not, in the place of x ^ y
AndNotByte(x, y) == AndNotBits(x, y, 8)

\* id1[j] ^ id2[j] on bytes
XorByte(x, y) == XorBits(x, y, 8)

\* 2^n
RECURSIVE Pow2(_)
Pow2(n) == IF n = 0 THEN 1 ELSE 2 * Pow2(n - 1)

\* hasBit without pos = 7 - pos: bit 0 is the least significant one
hasBitFromRight(n, pos) ==
    LET val == ((n \div Pow2(pos)) % 2) * Pow2(pos)
    IN val > 0

\* pos = 7 - pos; val := n & (1 << pos); return val > 0
hasBit(n, pos) ==
    LET p == 7 - pos
        val == ((n \div Pow2(p)) % 2) * Pow2(p)
    IN val > 0

\* the inner loop: the first i in 0..7 with hasBit(xor, i), or -1
RECURSIVE FirstBit(_, _)
FirstBit(xor, i) ==
    IF i >= 8 THEN -1
    ELSE IF hasBit(xor, i) THEN i
    ELSE FirstBit(xor, i + 1)

\* the outer loop over the bytes, j counted from 0
RECURSIVE ScanBytes(_, _, _)
ScanBytes(id1, id2, j) ==
    IF j >= Len(id1) THEN 0
    ELSE LET xor == XorByte(id1[j + 1], id2[j + 1])
             bitIndex == FirstBit(xor, 0)
             byteIndex == j * 8
         IN IF bitIndex >= 0
            THEN b - (byteIndex + bitIndex) - 1
            ELSE ScanBytes(id1, id2, j + 1)

getBucketIndexFromDifferingBit(id1, id2) == ScanBytes(id1, id2, 0)

-----------------------------------------------------------------------------
(* Insertion *)

\* addNode without the trim of an over-full bucket
addNodeNoTrim(rt, self, node) ==
    LET index == getBucketIndexFromDifferingBit(self.ID, node.ID)
        bucket == rt[index]
    IN IF \E v \in 1..Len(bucket) : bucket[v].ID = node.ID
       THEN rt
       ELSE [rt EXCEPT ![index] = Append(bucket, node)]

\* addNode without the scan for an existing entry
addNodeNoScan(rt, self, node) ==
    LET index == getBucketIndexFromDifferingBit(self.ID, node.ID)
        appended == Append(rt[index], node)
    IN [rt EXCEPT ![index] =
            IF Len(appended) > k
            THEN SubSeq(appended, 1, Len(appended) - 1)
            ELSE appended]

\* addNode that overwrites an existing entry with the new contact
addNodeUpdate(rt, self, node) ==
    LET index == getBucketIndexFromDifferingBit(self.ID, node.ID)
        bucket == rt[index]
    IN IF \E v \in 1..Len(bucket) : bucket[v].ID = node.ID
       THEN [rt EXCEPT ![index] =
                [v \in 1..Len(bucket) |->
                    IF bucket[v].ID = node.ID THEN node ELSE bucket[v]]]
       ELSE LET appended == Append(bucket, node)
            IN [rt EXCEPT ![index] =
                    IF Len(appended) > k
                    THEN SubSeq(appended, 1, Len(appended) - 1)
                    ELSE appended]

\* addNode that removes the head of an over-full bucket, not its tail
addNodeEvictHead(rt, self, node) ==
    LET index == getBucketIndexFromDifferingBit(self.ID, node.ID)
        bucket == rt[index]
    IN IF \E v \in 1..Len(bucket) : bucket[v].ID = node.ID
       THEN rt
       ELSE LET appended == Append(bucket, node)
            IN [rt EXCEPT ![index] =
                    IF Len(appended) > k THEN Tail(appended) ELSE appended]

\* addNode that puts the new contact at the head of the bucket
addNodePrepend(rt, self, node) ==
    LET index == getBucketIndexFromDifferingBit(self.ID, node.ID)
        bucket == rt[index]
    IN IF \E v \in 1..Len(bucket) : bucket[v].ID = node.ID
       THEN rt
       ELSE LET prepended == <<node>> \o bucket
            IN [rt EXCEPT ![index] =
                    IF Len(prepended) > k
                    THEN SubSeq(prepended, 1, Len(prepended) - 1)
                    ELSE prepended]

\* the table after ht.addNode(node)
addNode(rt, self, node) ==
    LET index == getBucketIndexFromDifferingBit(self.ID, node.ID)
        bucket == rt[index]
    IN IF \E v \in 1..Len(bucket) : bucket[v].ID = node.ID
       THEN rt
       ELSE LET appended == Append(bucket, node)
            IN [rt EXCEPT ![index] =
                    IF Len(appended) > k
                    THEN SubSeq(appended, 1, Len(appended) - 1)
                    ELSE appended]

-----------------------------------------------------------------------------
(* The shortlist *)

\* the XOR of two identifiers read as a big-endian number, over their first n bytes
RECURSIVE XorPrefix(_, _, _)
XorPrefix(id1, id2, n) ==
    IF n = 0 THEN 0
    ELSE 256 * XorPrefix(id1, id2, n - 1) + XorByte(id1[n], id2[n])

\* the XOR distance between two identifiers
Distance(id1, id2) == XorPrefix(id1, id2, Len(id1))

\* sl.AppendUnique(contacts): each contact is added unless an entry has its ID
RECURSIVE AppendUnique(_, _)
AppendUnique(nodes, contacts) ==
    IF contacts = <<>> THEN nodes
    ELSE LET c == Head(contacts)
         IN AppendUnique(
                IF \E v \in 1..Len(nodes) : nodes[v].ID = c.ID
                THEN nodes
                ELSE Append(nodes, c),
                Tail(contacts))

\* n put into a list sorted by distance to target, after the entries as close as it
RECURSIVE InsertByDistance(_, _, _)
InsertByDistance(sorted, n, target) ==
    IF sorted = <<>> THEN <<n>>
    ELSE IF Distance(n.ID, target) < Distance(Head(sorted).ID, target)
         THEN <<n>> \o sorted
         ELSE <<Head(sorted)>> \o InsertByDistance(Tail(sorted), n, target)

\* sort.Sort(sl): the shortlist in ascending XOR distance to the target
RECURSIVE SortByDistance(_, _)
SortByDistance(nodes, target) ==
    IF nodes = <<>> THEN <<>>
    ELSE InsertByDistance(
             SortByDistance(SubSeq(nodes, 1, Len(nodes) - 1), target),
             nodes[Len(nodes)], target)

-----------------------------------------------------------------------------
(* The closest-contacts query *)

\* an index list built with the index below the home index ahead of the one above
RECURSIVE BuildIndexListDownFirst(_, _, _)
BuildIndexListDownFirst(indexList, i, j) ==
    IF Len(indexList) < b
    THEN LET down == IF i >= 0 THEN Append(indexList, i) ELSE indexList
             up == IF j < b THEN Append(down, j) ELSE down
         IN BuildIndexListDownFirst(up, i - 1, j + 1)
    ELSE indexList

\* the loop that builds indexList: j above the home index, then i below it
RECURSIVE BuildIndexList(_, _, _)
BuildIndexList(indexList, i, j) ==
    IF Len(indexList) < b
    THEN LET up == IF j < b THEN Append(indexList, j) ELSE indexList
             down == IF i >= 0 THEN Append(up, i) ELSE up
         IN BuildIndexList(down, i - 1, j + 1)
    ELSE indexList

\* an ignore test that ignores nothing
IsIgnoredNever(candidate, ignoredNodes) == FALSE

\* an ignore test that compares each entry's ID with the candidate's
IsIgnoredByID(candidate, ignoredNodes) ==
    \E j \in 1..Len(ignoredNodes) : ignoredNodes[j].ID = candidate.ID

\* the loop over ignoredNodes: each entry's ID is compared with itself
IsIgnored(candidate, ignoredNodes) ==
    \E j \in 1..Len(ignoredNodes) : ignoredNodes[j].ID = ignoredNodes[j].ID

\* the loop over one bucket from position i (counted from 0)
RECURSIVE WalkBucket(_, _, _, _, _)
WalkBucket(bucket, i, ignoredNodes, nodes, leftToAdd) ==
    IF i < Len(bucket)
    THEN IF ~IsIgnored(bucket[i + 1], ignoredNodes)
         THEN LET added == AppendUnique(nodes, <<bucket[i + 1]>>)
              IN IF leftToAdd - 1 = 0
                 THEN [Nodes |-> added, leftToAdd |-> 0]
                 ELSE WalkBucket(bucket, i + 1, ignoredNodes, added, leftToAdd - 1)
         ELSE WalkBucket(bucket, i + 1, ignoredNodes, nodes, leftToAdd)
    ELSE [Nodes |-> nodes, leftToAdd |-> leftToAdd]

\* the loop over indexList
RECURSIVE WalkIndexList(_, _, _, _, _)
WalkIndexList(rt, indexList, ignoredNodes, nodes, leftToAdd) ==
    IF leftToAdd > 0 /\ Len(indexList) > 0
    THEN LET r == WalkBucket(rt[Head(indexList)], 0, ignoredNodes, nodes, leftToAdd)
         IN WalkIndexList(rt, Tail(indexList), ignoredNodes, r.Nodes, r.leftToAdd)
    ELSE nodes

\* the contacts the query collects, in the order it collects them
Collected(rt, self, num, target, ignoredNodes) ==
    LET index == getBucketIndexFromDifferingBit(self.ID, target)
        indexList == BuildIndexList(<<index>>, index - 1, index + 1)
    IN WalkIndexList(rt, indexList, ignoredNodes, <<>>, num)

\* the query without its final sort
getClosestContactsUnsorted(rt, self, num, target, ignoredNodes) ==
    Collected(rt, self, num, target, ignoredNodes)

\* the shortlist ht.getClosestContacts(num, target, ignoredNodes) returns
getClosestContacts(rt, self, num, target, ignoredNodes) ==
    SortByDistance(Collected(rt, self, num, target, ignoredNodes), target)

-----------------------------------------------------------------------------
(* Construction *)

\* texts (options.IP, options.Port) are sequences of characters
Digits == <<"0", "1", "2", "3", "4", "5", "6", "7", "8", "9">>

IsDigit(c) == \E d \in 1..10 : Digits[d] = c

DigitVal(c) == (CHOOSE d \in 1..10 : Digits[d] = c) - 1

\* the number a text of digits stands for
RECURSIVE ParseDigits(_)
ParseDigits(s) ==
    IF s = <<>> THEN 0
    ELSE 10 * ParseDigits(SubSeq(s, 1, Len(s) - 1)) + DigitVal(s[Len(s)])

\* strconv.Atoi: an optional sign and at least one digit, nothing else
Atoi(s) ==
    LET signed == s # <<>> /\ s[1] \in {"+", "-"}
        body == IF signed THEN Tail(s) ELSE s
    IN IF body = <<>> \/ \E i \in 1..Len(body) : ~IsDigit(body[i])
       THEN [val |-> 0, err |-> TRUE]
       ELSE [val |-> IF signed /\ s[1] = "-"
                     THEN 0 - ParseDigits(body)
                     ELSE ParseDigits(body),
             err |-> FALSE]

\* the fields of a text between its dots
RECURSIVE Fields(_)
Fields(s) ==
    IF \A i \in 1..Len(s) : s[i] # "."
    THEN <<s>>
    ELSE LET dot == CHOOSE i \in 1..Len(s) :
                        s[i] = "." /\ \A j \in 1..(i - 1) : s[j] # "."
         IN <<SubSeq(s, 1, dot - 1)>> \o Fields(SubSeq(s, dot + 1, Len(s)))

\* net.ParseIP on dotted-quad texts: the four numbers, or <<>> (nil) for a text
\* that is no address
ParseIP(s) ==
    LET f == Fields(s)
        ok(t) == /\ Len(t) \in 1..3
                 /\ \A i \in 1..Len(t) : IsDigit(t[i])
                 /\ (Len(t) > 1 => t[1] # "0")
                 /\ ParseDigits(t) <= 255
    IN IF Len(f) = 4 /\ \A i \in 1..4 : ok(f[i])
       THEN [i \in 1..4 |-> ParseDigits(f[i])]
       ELSE <<>>

\* the result of newHashTable: ht is <<>> for nil, or holds the one table
Returned(ht, err) == [ht |-> ht, err |-> err, panic |-> FALSE]

Panicked == [ht |-> <<>>, err |-> FALSE, panic |-> TRUE]

\* newHashTable that does not look at Atoi's error
newHashTableAnyPort(options) ==
    IF options.ID = <<>> /\ options.randErr
    THEN Panicked
    ELSE IF options.IP = <<>> \/ options.Port = <<>>
         THEN Returned(<<>>, TRUE)
         ELSE Returned(
                  <<[Self |-> [ID |-> IF options.ID # <<>>
                                      THEN options.ID ELSE options.randID,
                               IP |-> ParseIP(options.IP),
                               Port |-> Atoi(options.Port).val],
                     RoutingTable |-> [i \in 0..(b - 1) |-> <<>>]]>>,
                  FALSE)

\* newHashTable(options); options.randID and options.randErr are what newID's
\* rand.Read delivers when it is called
newHashTable(options) ==
    IF options.ID = <<>> /\ options.randErr
    THEN Panicked
    ELSE IF options.IP = <<>> \/ options.Port = <<>>
         THEN Returned(<<>>, TRUE)
         ELSE LET port == Atoi(options.Port)
              IN IF port.err
                 THEN Returned(<<>>, TRUE)
                 ELSE Returned(
                          <<[Self |-> [ID |-> IF options.ID # <<>>
                                              THEN options.ID ELSE options.randID,
                                       IP |-> ParseIP(options.IP),
                                       Port |-> port.val],
                             RoutingTable |-> [i \in 0..(b - 1) |-> <<>>]]>>,
                          FALSE)

-----------------------------------------------------------------------------
(* Specification *)

NoArgs == [num |-> 0, target |-> ZeroID, ignoredNodes |-> <<>>]

\* no call of newHashTable or of the distance metric under way
NoCall == [fn |-> "none", in |-> <<>>, out |-> <<>>, done |-> FALSE]

\* the goroutines that call into the table concurrently
NumGoroutines == 2

Goroutines == 1..NumGoroutines

\* a goroutine outside any call
Outside == [at |-> "outside", op |-> "none", node |-> <<>>, num |-> 0,
            target |-> <<>>, index |-> 0, bucket |-> <<>>, indexList |-> <<>>,
            leftToAdd |-> 0, sl |-> <<>>]

\* the table newHashTable returns: Self set, b empty buckets
InitTable ==
    /\ Self \in SelfNodes
    /\ RoutingTable = [i \in 0..(b - 1) |-> <<>>]
    /\ inserted = <<>>
    /\ pc = "idle"
    /\ args = NoArgs
    /\ sl = <<>>

\* the mutex newHashTable makes is unlocked; no goroutine is in a call yet
InitConcurrent ==
    /\ mutex = {}
    /\ goroutine = [g \in Goroutines |-> Outside]

Init ==
    /\ InitTable
    /\ InitConcurrent
    /\ call = NoCall

AddNode(node) ==
    /\ pc = "idle"
    /\ Len(inserted) < MaxAdds
    /\ RoutingTable' = addNode(RoutingTable, Self, node)
    /\ inserted' = Append(inserted, node)
    /\ UNCHANGED <<Self, pc, args, sl>>
    /\ UNCHANGED <<call, mutex, goroutine>>

\* a query that takes the contacts it returns out of their buckets
GetClosestContactsTaking(num, target, ignoredNodes) ==
    /\ pc = "idle"
    /\ sl' = getClosestContacts(RoutingTable, Self, num, target, ignoredNodes)
    /\ args' = [num |-> num, target |-> target, ignoredNodes |-> ignoredNodes]
    /\ pc' = "returned"
    /\ RoutingTable' =
           [i \in 0..(b - 1) |->
               SelectSeq(RoutingTable[i],
                         LAMBDA n : \A v \in 1..Len(sl') : sl'[v].ID # n.ID)]
    /\ UNCHANGED <<Self, inserted>>
    /\ UNCHANGED <<call, mutex, goroutine>>

GetClosestContacts(num, target, ignoredNodes) ==
    /\ pc = "idle"
    /\ sl' = getClosestContacts(RoutingTable, Self, num, target, ignoredNodes)
    /\ args' = [num |-> num, target |-> target, ignoredNodes |-> ignoredNodes]
    /\ pc' = "returned"
    /\ UNCHANGED <<Self, RoutingTable, inserted>>
    /\ UNCHANGED <<call, mutex, goroutine>>

\* the caller is done with the shortlist, which is discarded
Return ==
    /\ pc = "returned"
    /\ pc' = "idle"
    /\ args' = NoArgs
    /\ sl' = <<>>
    /\ UNCHANGED <<Self, RoutingTable, inserted>>
    /\ UNCHANGED <<call, mutex, goroutine>>

Next == \E node \in Nodes : AddNode(node)

Spec == Init /\ [][Next]_vars

\* the contacts, targets and ignore lists of the runs with queries: contacts
\* with one address and a first byte of 0 or 1, any target
QueryNodes == {n \in Nodes : n.IP = 1 /\ n.ID[1] \in {0, 1}}

Targets == IDs

IgnoredNodes == {n \in QueryNodes : \A j \in 1..(IDLen - 1) : n.ID[j] = 0}

IgnoreLists == {<<>>} \cup {<<n>> : n \in IgnoredNodes}

\* the shape of the state: the fields of hashTable and the last query's result
TypeOK ==
    /\ Self \in SelfNodes
    /\ RoutingTable \in [0..(b - 1) -> Seq(Nodes)]
    /\ inserted \in Seq(Nodes)
    /\ pc \in {"idle", "returned"}
    /\ sl \in Seq(Nodes)
    /\ mutex \subseteq Goroutines
    /\ Cardinality(mutex) <= 1
    /\ DOMAIN goroutine = Goroutines

NextQuery ==
    \/ \E node \in QueryNodes : AddNode(node)
    \/ \E num \in 0..MaxNum, target \in Targets, ignoredNodes \in IgnoreLists :
           GetClosestContacts(num, target, ignoredNodes)
    \/ Return

SpecQuery == Init /\ [][NextQuery]_vars

\* the distance metric applied to a pair of identifiers
InitMetric ==
    /\ InitTable
    /\ InitConcurrent
    /\ \E id1 \in MetricIDs, id2 \in MetricIDs :
           call = [fn |-> "getBucketIndexFromDifferingBit", in |-> <<id1, id2>>,
                   out |-> <<>>, done |-> FALSE]

GetBucketIndexFromDifferingBit ==
    /\ call.fn = "getBucketIndexFromDifferingBit"
    /\ ~call.done
    /\ call' = [call EXCEPT
                   !.out = <<getBucketIndexFromDifferingBit(call.in[1], call.in[2])>>,
                   !.done = TRUE]
    /\ UNCHANGED <<Self, RoutingTable, inserted, pc, args, sl, mutex, goroutine>>

NextMetric == GetBucketIndexFromDifferingBit

SpecMetric == InitMetric /\ [][NextMetric]_vars

\* the configurations newHashTable is called with
PortTexts ==
    {<<>>, <<"8", "0">>, <<"-", "1">>, <<"+", "7">>, <<"8", "a">>, <<"x">>,
     <<"-">>, <<"8", " ">>}

IPTexts == {<<>>, <<"1", ".", "2", ".", "3", ".", "4">>, <<"h", "o", "s", "t">>}

Options ==
    [ID : {<<>>} \cup {n.ID : n \in SelfNodes}, IP : IPTexts, Port : PortTexts,
     randID : {[j \in 1..IDLen |-> 128]}, randErr : BOOLEAN]

InitNew ==
    /\ InitTable
    /\ InitConcurrent
    /\ \E options \in Options :
           call = [fn |-> "newHashTable", in |-> options, out |-> <<>>,
                   done |-> FALSE]

NewHashTable ==
    /\ call.fn = "newHashTable"
    /\ ~call.done
    /\ call' = [call EXCEPT !.out = newHashTable(call.in), !.done = TRUE]
    /\ UNCHANGED <<Self, RoutingTable, inserted, pc, args, sl, mutex, goroutine>>

NextNew == NewHashTable

SpecNew == InitNew /\ [][NextNew]_vars

-----------------------------------------------------------------------------
(* Concurrent callers *)

\* the contacts and queries of the concurrent runs
ConcurrentNodes == {n \in QueryNodes : n.ID[1] = 0 /\ n.ID # ZeroID}

ConcurrentTargets == {ZeroID}

\* a Lock that does not wait for the mutex
CanLockAlways(m) == TRUE

\* ht.mutex.Lock() goes through when the mutex is unlocked
CanLock(m) == m = {}

\* a return that leaves the mutex locked
UnlockedNever(m, g) == m

\* the mutex after g's deferred ht.mutex.Unlock()
Unlocked(m, g) == m \ {g}

AddNodeCalls == {g \in Goroutines : goroutine[g].op = "addNode"}

\* a goroutine calls ht.addNode(node)
CallAddNode(g, node) ==
    /\ goroutine[g].at = "outside"
    /\ Len(inserted) + Cardinality(AddNodeCalls) < MaxAdds
    /\ goroutine' = [goroutine EXCEPT
                        ![g] = [Outside EXCEPT !.at = "lock", !.op = "addNode",
                                               !.node = node]]
    /\ UNCHANGED <<Self, RoutingTable, inserted, pc, args, sl, call, mutex>>

\* a goroutine calls ht.getClosestContacts(num, target, nil)
CallGetClosestContacts(g, num, target) ==
    /\ goroutine[g].at = "outside"
    /\ goroutine' = [goroutine EXCEPT
                        ![g] = [Outside EXCEPT !.at = "lock",
                                               !.op = "getClosestContacts",
                                               !.num = num, !.target = target]]
    /\ UNCHANGED <<Self, RoutingTable, inserted, pc, args, sl, call, mutex>>

\* ht.mutex.Lock()
Lock(g) ==
    /\ goroutine[g].at = "lock"
    /\ CanLock(mutex)
    /\ mutex' = mutex \cup {g}
    /\ goroutine' = [goroutine EXCEPT
                        ![g].at = IF goroutine[g].op = "addNode"
                                  THEN "read" ELSE "index"]
    /\ UNCHANGED <<Self, RoutingTable, inserted, pc, args, sl, call>>

\* addNode: index := ...; bucket := ht.RoutingTable[index]
AddNodeRead(g) ==
    /\ goroutine[g].at = "read"
    /\ \E index \in {getBucketIndexFromDifferingBit(Self.ID, goroutine[g].node.ID)} :
           goroutine' = [goroutine EXCEPT ![g].index = index,
                                          ![g].bucket = RoutingTable[index],
                                          ![g].at = "scan"]
    /\ UNCHANGED <<Self, RoutingTable, inserted, pc, args, sl, call, mutex>>

\* addNode: the scan of the bucket; it returns when the node is there
AddNodeScan(g) ==
    /\ goroutine[g].at = "scan"
    /\ IF \E v \in 1..Len(goroutine[g].bucket) :
              goroutine[g].bucket[v].ID = goroutine[g].node.ID
       THEN /\ goroutine' = [goroutine EXCEPT ![g].at = "unlock"]
            /\ inserted' = Append(inserted, goroutine[g].node)
       ELSE /\ goroutine' = [goroutine EXCEPT ![g].at = "write"]
            /\ UNCHANGED inserted
    /\ UNCHANGED <<Self, RoutingTable, pc, args, sl, call, mutex>>

\* addNode: the append, the trim and ht.RoutingTable[index] = bucket
AddNodeWrite(g) ==
    /\ goroutine[g].at = "write"
    /\ LET appended == Append(goroutine[g].bucket, goroutine[g].node)
           bucket == IF Len(appended) > k
                     THEN SubSeq(appended, 1, Len(appended) - 1)
                     ELSE appended
       IN /\ RoutingTable' = [RoutingTable EXCEPT ![goroutine[g].index] = bucket]
          /\ goroutine' = [goroutine EXCEPT ![g].bucket = bucket,
                                            ![g].at = "unlock"]
    /\ inserted' = Append(inserted, goroutine[g].node)
    /\ UNCHANGED <<Self, pc, args, sl, call, mutex>>

\* getClosestContacts: indexList, sl and leftToAdd are set up
QueryIndex(g) ==
    /\ goroutine[g].at = "index"
    /\ \E index \in {getBucketIndexFromDifferingBit(Self.ID, goroutine[g].target)} :
           goroutine' = [goroutine EXCEPT
                            ![g].index = index,
                            ![g].indexList =
                                BuildIndexList(<<index>>, index - 1, index + 1),
                            ![g].sl = <<>>,
                            ![g].leftToAdd = goroutine[g].num,
                            ![g].at = "walk"]
    /\ UNCHANGED <<Self, RoutingTable, inserted, pc, args, sl, call, mutex>>

\* getClosestContacts: one round of the loop over indexList, or its end
QueryWalk(g) ==
    /\ goroutine[g].at = "walk"
    /\ IF goroutine[g].leftToAdd > 0 /\ Len(goroutine[g].indexList) > 0
       THEN \E r \in {WalkBucket(RoutingTable[Head(goroutine[g].indexList)], 0,
                                 <<>>, goroutine[g].sl, goroutine[g].leftToAdd)} :
                goroutine' = [goroutine EXCEPT
                                 ![g].index = Head(goroutine[g].indexList),
                                 ![g].indexList = Tail(goroutine[g].indexList),
                                 ![g].sl = r.Nodes,
                                 ![g].leftToAdd = r.leftToAdd]
       ELSE goroutine' = [goroutine EXCEPT ![g].at = "sort"]
    /\ UNCHANGED <<Self, RoutingTable, inserted, pc, args, sl, call, mutex>>

\* getClosestContacts: sort.Sort(sl); return sl
QuerySort(g) ==
    /\ goroutine[g].at = "sort"
    /\ goroutine' = [goroutine EXCEPT
                        ![g].sl = SortByDistance(goroutine[g].sl, goroutine[g].target),
                        ![g].at = "unlock"]
    /\ UNCHANGED <<Self, RoutingTable, inserted, pc, args, sl, call, mutex>>

\* the deferred ht.mutex.Unlock(); the call is over
Unlock(g) ==
    /\ goroutine[g].at = "unlock"
    /\ mutex' = Unlocked(mutex, g)
    /\ goroutine' = [goroutine EXCEPT ![g] = Outside]
    /\ UNCHANGED <<Self, RoutingTable, inserted, pc, args, sl, call>>

\* the steps of a call once it is made
Run(g) ==
    \/ AddNodeRead(g)
    \/ AddNodeScan(g)
    \/ AddNodeWrite(g)
    \/ QueryIndex(g)
    \/ QueryWalk(g)
    \/ QuerySort(g)
    \/ Unlock(g)

NextConcurrent ==
    \E g \in Goroutines :
        \/ \E node \in ConcurrentNodes : CallAddNode(g, node)
        \/ \E target \in ConcurrentTargets : CallGetClosestContacts(g, k, target)
        \/ Lock(g)
        \/ Run(g)

SpecConcurrent == Init /\ [][NextConcurrent]_vars

\* every goroutine keeps running, and a goroutine that waits for the mutex gets
\* it (sync.Mutex hands the mutex to a waiter that would starve)
SpecConcurrentFair ==
    /\ SpecConcurrent
    /\ \A g \in Goroutines : WF_vars(Run(g)) /\ SF_vars(Lock(g))

-----------------------------------------------------------------------------
(* Properties of insertion *)

Min(x, y) == IF x < y THEN x ELSE y

Last(seq) == seq[Len(seq)]

BucketIDs(i) == [p \in 1..Len(RoutingTable[i]) |-> RoutingTable[i][p].ID]

TableEntries ==
    UNION {{RoutingTable[i][p] : p \in 1..Len(RoutingTable[i])} : i \in 0..(b - 1)}

InTable(id) == \E n \in TableEntries : n.ID = id

\* the bucket index of each inserted identifier
InsertedIndex ==
    [n \in 1..Len(inserted) |->
        getBucketIndexFromDifferingBit(Self.ID, inserted[n].ID)]

\* the distinct identifiers among the first n calls that belong to bucket i
\* (idx gives each call's bucket), in the order of their first insertion
RECURSIVE FirstInserted(_, _, _)
FirstInserted(idx, i, n) ==
    IF n = 0 THEN <<>>
    ELSE IF idx[n] = i /\ \A j \in 1..(n - 1) : inserted[j].ID # inserted[n].ID
         THEN Append(FirstInserted(idx, i, n - 1), inserted[n].ID)
         ELSE FirstInserted(idx, i, n - 1)

\* C1: after any sequence of addNode calls every bucket holds at most k contacts.
C1_BucketCapacity ==
    \A i \in 0..(b - 1) : Len(RoutingTable[i]) <= k

\* more than k distinct identifiers of one bucket have been inserted
C1_Witness ==
    \E idx \in {InsertedIndex} :
        \E i \in 0..(b - 1) :
            /\ Len(FirstInserted(idx, i, Len(inserted))) > k
            /\ Len(RoutingTable[i]) = k

\* C2: each Identifier appears in at most one bucket, and at most once in it.
C2_NoDuplicateIdentifiers ==
    \A i, j \in 0..(b - 1) :
        \A p \in 1..Len(RoutingTable[i]), q \in 1..Len(RoutingTable[j]) :
            RoutingTable[i][p].ID = RoutingTable[j][q].ID => (i = j /\ p = q)

\* an identifier has been inserted twice, into a table that holds another contact too
C2_Witness ==
    /\ \E m, n \in 1..Len(inserted) : m < n /\ inserted[m].ID = inserted[n].ID
    /\ \E x, y \in TableEntries :
           /\ x.ID # y.ID
           /\ \E m, n \in 1..Len(inserted) :
                  m < n /\ inserted[m].ID = x.ID /\ inserted[n].ID = x.ID

\* C3: no bucket contains a contact whose Identifier equals the table's Self
\* Identifier, also after addNode calls with Self's own Identifier.
C3_SelfNeverInTable ==
    \A n \in TableEntries : n.ID # Self.ID

\* C4: addNode of a contact whose Identifier is already in the table leaves the
\* whole routing table as it was, whatever address the new contact claims.
C4_DuplicateInsertIsNoOp ==
    [][(inserted' # inserted /\ InTable(Last(inserted').ID))
           => RoutingTable' = RoutingTable]_vars

\* the last call gave an identifier of the table with another address than the
\* one the first call gave, and the table holds the first one
C4_Witness ==
    /\ Len(inserted) >= 2
    /\ \E m \in 1..(Len(inserted) - 1) :
           /\ inserted[m].ID = Last(inserted).ID
           /\ inserted[m].IP # Last(inserted).IP
           /\ inserted[m] \in TableEntries
           /\ Last(inserted) \notin TableEntries

\* C5: each bucket holds exactly the first min(k, n) of the n distinct inserted
\* Identifiers that map to it, in the order of their first insertion.
C5_FirstKInInsertionOrder ==
    \A idx \in {InsertedIndex} :
        \A i \in 0..(b - 1) :
            \A h \in {FirstInserted(idx, i, Len(inserted))} :
                BucketIDs(i) = SubSeq(h, 1, Min(k, Len(h)))

\* the last call brought a (k+1)-th distinct identifier to a full bucket
C5_Witness ==
    /\ Len(inserted) >= 1
    /\ \E idx \in {InsertedIndex} :
           \E h \in {FirstInserted(idx, Last(idx), Len(inserted))} :
               /\ Len(h) = k + 1
               /\ Last(h) = Last(inserted).ID
               /\ ~InTable(Last(inserted).ID)

-----------------------------------------------------------------------------
(* Properties of the closest-contacts query *)

IgnoredIDs == {args.ignoredNodes[j].ID : j \in 1..Len(args.ignoredNodes)}

ShortlistIDs == {sl[v].ID : v \in 1..Len(sl)}

\* the contacts of the table whose Identifier is not in the ignore list
Eligible == {n \in TableEntries : n.ID \notin IgnoredIDs}

\* C6: the shortlist a query returns contains no contact whose Identifier is
\* the Identifier of an entry of its ignoredNodes.
C6_IgnoredExcluded ==
    pc = "returned" => ShortlistIDs \cap IgnoredIDs = {}

\* a query for at least one contact has ignored a contact of the table
C6_Witness ==
    /\ pc = "returned"
    /\ args.num > 0
    /\ \E n \in TableEntries : n.ID \in IgnoredIDs

\* C7: a query returns exactly min(count, N) contacts, N the number of contacts
\* of the table whose Identifier is not in ignoredNodes.
C7_ReturnsMinCountEligible ==
    pc = "returned" => Len(sl) = Min(args.num, Cardinality(Eligible))

C9_NextCountExtendsResult ==
    (pc = "returned" /\ Cardinality(Eligible) >= args.num + 1) =>
        \A next \in {getClosestContacts(RoutingTable, Self, args.num + 1,
                                        args.target, args.ignoredNodes)} :
            /\ ShortlistIDs \subseteq {next[v].ID : v \in 1..Len(next)}
            /\ Len(sl) <= Len(next)
            /\ sl = SubSeq(next, 1, Len(sl))

\* C10: with an empty ignore list, no contact left out of the result is
\* strictly closer to the target than a contact of the result.
C10_ReturnsClosest ==
    (pc = "returned" /\ args.ignoredNodes = <<>>) =>
        \A out \in TableEntries, v \in 1..Len(sl) :
            out.ID \notin ShortlistIDs =>
                Distance(out.ID, args.target) >= Distance(sl[v].ID, args.target)

-----------------------------------------------------------------------------
(* Properties of the probe order and frame properties *)

\* the home bucket of the last query's target
Home == getBucketIndexFromDifferingBit(Self.ID, args.target)

Abs(x) == IF x < 0 THEN -x ELSE x

\* s lists every bucket index once: home first, then by growing gap to home, the
\* index above home ahead of the index below it (each entry is strictly ahead
\* of the next in that order, so no index is listed twice)
ProbeShape(s, home) ==
    /\ Len(s) = b
    /\ s[1] = home
    /\ \A p \in 1..Len(s) : s[p] \in 0..(b - 1)
    /\ \A p \in 1..(Len(s) - 1) :
           \/ Abs(s[p] - home) < Abs(s[p + 1] - home)
           \/ (Abs(s[p] - home) = Abs(s[p + 1] - home) /\ s[p] > s[p + 1])

\* the place of bucket index i in the list s
Rank(s, i) == CHOOSE p \in 1..Len(s) : s[p] = i

NonEmptyBuckets == {i \in 0..(b - 1) : RoutingTable[i] # <<>>}

C17_ProbeOrder ==
    pc = "returned" =>
        \A il \in {BuildIndexList(<<Home>>, Home - 1, Home + 1)} :
            /\ ProbeShape(il, Home)
            /\ \A i, j \in NonEmptyBuckets :
                   \A p \in 1..Len(RoutingTable[i]), q \in 1..Len(RoutingTable[j]) :
                       ( /\ RoutingTable[i][p].ID \in ShortlistIDs
                         /\ RoutingTable[j][q] \in Eligible
                         /\ \/ Rank(il, j) < Rank(il, i)
                            \/ (j = i /\ q < p) )
                       => RoutingTable[j][q].ID \in ShortlistIDs

\* the result holds a contact from outside the home bucket and the contacts of
\* the home bucket, and leaves out a contact of a bucket further down the order
C17_Witness ==
    /\ pc = "returned"
    /\ RoutingTable[Home] # <<>>
    /\ \E i \in NonEmptyBuckets :
           i # Home /\ \E p \in 1..Len(RoutingTable[i]) :
                          RoutingTable[i][p].ID \in ShortlistIDs
    /\ \E n \in TableEntries : n.ID \notin ShortlistIDs

\* C18: an addNode call changes no bucket but the one at the index of the
\* contact's Identifier, where at most one element is appended at the end; the
\* number of buckets and Self stay as they are.
C18_AddNodeFrame ==
    [][inserted' # inserted =>
          \A node \in {Last(inserted')} :
              \A index \in {getBucketIndexFromDifferingBit(Self.ID, node.ID)} :
                  /\ Self' = Self
                  /\ DOMAIN RoutingTable' = DOMAIN RoutingTable
                  /\ \A i \in (DOMAIN RoutingTable) \ {index} :
                         RoutingTable'[i] = RoutingTable[i]
                  /\ \/ RoutingTable'[index] = RoutingTable[index]
                     \/ RoutingTable'[index] = Append(RoutingTable[index], node)]_vars

\* a call has appended a contact behind another one, and another bucket holds
\* a contact
C18_Witness ==
    /\ Len(inserted) >= 3
    /\ \E i \in NonEmptyBuckets :
           /\ Len(RoutingTable[i]) >= 2
           /\ Last(RoutingTable[i]) = Last(inserted)
    /\ Cardinality(NonEmptyBuckets) >= 2

\* C19: every contact stored in bucket i has an XOR distance d to Self with
\* 2^i <= d < 2^(i+1).
C19_BucketDistanceRange ==
    \A i \in NonEmptyBuckets :
        \A p \in 1..Len(RoutingTable[i]) :
            \A d \in {Distance(Self.ID, RoutingTable[i][p].ID)} :
                Pow2(i) <= d /\ d < Pow2(i + 1)

\* C20: a query leaves the routing table and Self as they are; a step that
\* changes the table is an addNode call.
C20_QueryReadOnly ==
    [][/\ (pc = "idle" /\ pc' = "returned")
           => (RoutingTable' = RoutingTable /\ Self' = Self)
       /\ (RoutingTable' # RoutingTable \/ Self' # Self)
           => inserted' # inserted]_vars

\* a query has returned contacts of a table that holds them still
C20_Witness ==
    /\ pc = "returned"
    /\ Len(sl) >= 2
    /\ \A v \in 1..Len(sl) : sl[v] \in TableEntries

-----------------------------------------------------------------------------
(* Properties of the distance metric and of construction *)

\* the place of the highest set bit of d > 0, the lowest bit being place 0
RECURSIVE Log2(_)
Log2(d) == IF d <= 1 THEN 0 ELSE 1 + Log2(d \div 2)

MetricDone == call.fn = "getBucketIndexFromDifferingBit" /\ call.done

\* C11: for distinct x and y the index is b - 1 - p, p the place (counted from
\* the most significant bit of byte 0) of the first set bit of x XOR y; for
\* identifiers of b bits it is the i with 2^i <= x XOR y < 2^(i+1); for
\* identical identifiers it is 0.
C11_IndexOfFirstDifferingBit ==
    MetricDone =>
        \A x \in {call.in[1]}, y \in {call.in[2]}, i \in {call.out[1]} :
            IF x = y
            THEN i = 0
            ELSE \A d \in {Distance(x, y)} :
                     /\ i = b - 1 - (8 * Len(x) - 1 - Log2(d))
                     /\ 8 * Len(x) = b => (Pow2(i) <= d /\ d < Pow2(i + 1))

\* the identifiers differ in a low bit of their last byte only
C11_Witness ==
    /\ MetricDone
    /\ call.in[1] # call.in[2]
    /\ \A j \in 1..(IDLen - 1) : call.in[1][j] = call.in[2][j]
    /\ call.out[1] = 2
    /\ Distance(call.in[1], call.in[2]) = 5

\* C12: the index of (x, y) is the index of (y, x).
C12_IndexSymmetric ==
    MetricDone =>
        call.out[1] = getBucketIndexFromDifferingBit(call.in[2], call.in[1])

\* the index of two identifiers that differ, neither of them all zero
C12_Witness ==
    /\ MetricDone
    /\ call.in[1] # call.in[2]
    /\ call.in[1] # ZeroID
    /\ call.in[2] # ZeroID
    /\ call.out[1] > 8

NewDone == call.fn = "newHashTable" /\ call.done

\* a text that reads as an integer: an optional sign, then digits only
IsIntegerText(s) ==
    \E n \in 0..1 :
        /\ Len(s) > n
        /\ n = 1 => s[1] \in {"+", "-"}
        /\ \A i \in (n + 1)..Len(s) :
               s[i] \in {"0", "1", "2", "3", "4", "5", "6", "7", "8", "9"}

BadConfiguration(options) ==
    options.IP = <<>> \/ options.Port = <<>> \/ ~IsIntegerText(options.Port)

\* what the claim says newHashTable returns for these options
AsConfigured(options, result) ==
    IF BadConfiguration(options)
    THEN result.err /\ result.ht = <<>> /\ ~result.panic
    ELSE /\ ~result.err
         /\ ~result.panic
         /\ Len(result.ht) = 1
         /\ DOMAIN result.ht[1].RoutingTable = 0..(b - 1)
         /\ \A i \in 0..(b - 1) : result.ht[1].RoutingTable[i] = <<>>

\* C15: as the claim states it, newHashTable returns an error and no table for
\* an empty IP, an empty Port or a Port that is no integer, and else a table of
\* b empty buckets and no error.
C15_ConfigurationErrorOrTable ==
    NewDone => AsConfigured(call.in, call.out)

\* C15, amended: the same, for the calls where options.ID is given or the
\* random source delivers an Identifier; in the other calls newHashTable
\* panics, whatever IP and Port are.
C15_ConfigurationErrorOrTableOrPanic ==
    NewDone =>
        IF call.in.ID = <<>> /\ call.in.randErr
        THEN call.out.panic
        ELSE AsConfigured(call.in, call.out)

\* a call with an IP and a Port that is no integer, and no Identifier given
C15_Witness ==
    /\ NewDone
    /\ call.in.ID = <<>>
    /\ ~call.in.randErr
    /\ call.in.IP # <<>>
    /\ call.in.Port # <<>>
    /\ ~IsIntegerText(call.in.Port)
    /\ call.out.err

-----------------------------------------------------------------------------
(* Concurrent callers: C13, C14 *)

\* the goroutines between ht.mutex.Lock() and the deferred ht.mutex.Unlock()
InCall == {g \in Goroutines : goroutine[g].at \notin {"outside", "lock"}}

RECURSIVE Serial(_)
\* the table after the first n completed addNode calls, applied one at a time
Serial(n) ==
    IF n = 0
    THEN [i \in 0..(b - 1) |-> <<>>]
    ELSE addNode(Serial(n - 1), Self, inserted[n])

\* the goroutines of a query whose result is computed
Answered ==
    {g \in Goroutines : /\ goroutine[g].op = "getClosestContacts"
                        /\ goroutine[g].at = "unlock"}

\* C13: concurrent addNode and getClosestContacts calls exclude one another:
\* at most one goroutine is inside a call, the table is the one the completed
\* addNode calls produce when applied one at a time, and every query result is
\* the result of that query on one of those serial tables.
C13_MutualExclusion ==
    /\ Cardinality(InCall) <= 1
    /\ RoutingTable = Serial(Len(inserted))
    /\ \A g \in Answered :
           \E n \in 0..Len(inserted) :
               goroutine[g].sl =
                   getClosestContacts(Serial(n), Self, goroutine[g].num,
                                      goroutine[g].target, <<>>)

\* a query has its result while another goroutine waits for the mutex with an
\* addNode, after an earlier addNode filled the table
C13_Witness ==
    \E g \in Answered :
        /\ Len(goroutine[g].sl) > 0
        /\ \E h \in Goroutines \ {g} :
               goroutine[h].at = "lock" /\ goroutine[h].op = "addNode"

\* C14: every call releases the mutex and completes, on the early return of
\* addNode and on an exhausted probe sequence too: a goroutine that holds the
\* mutex comes to not hold it, and a goroutine in a call comes to be out of it.
C14_CallsCompleteAndUnlock ==
    \A g \in Goroutines :
        /\ (g \in mutex) ~> (g \notin mutex)
        /\ (goroutine[g].at # "outside") ~> (goroutine[g].at = "outside")

\* addNode is on its early return with the mutex held while another goroutine
\* waits for the mutex
C14_Witness ==
    \E g \in Goroutines :
        /\ g \in mutex
        /\ goroutine[g].op = "addNode"
        /\ goroutine[g].at = "unlock"
        /\ RoutingTable[goroutine[g].index] = goroutine[g].bucket
        /\ Len(inserted) > 0
        /\ Last(inserted).ID = goroutine[g].node.ID
        /\ \E v \in 1..(Len(inserted) - 1) : inserted[v].ID = goroutine[g].node.ID
        /\ \E h \in Goroutines \ {g} : goroutine[h].at = "lock"

=============================================================================
